---- MODULE Spec2Model ----
(***************************************************************************)
(* A model of pullMSKStats.py: the collection of CloudWatch metrics for    *)
(* MSK clusters (get_msk_cluster_data) and the two scalar reducers it      *)
(* calls, get_cloudwatch_metric (PROVISIONED, one query per node) and      *)
(* get_cloudwatch_serverless_metric (SERVERLESS, topic discovery, batched  *)
(* queries, sum).                                                          *)
(*                                                                         *)
(* Encodings.  A Python dict is a TLA+ function whose DOMAIN is the set of *)
(* keys that are present; d[k] on an absent key is a KeyError.  A topic    *)
(* name is represented by a natural number (its index), 0 standing for the *)
(* empty string; str(node) is represented by the node number.  Metric      *)
(* values are naturals.  A cell of an output row is  *)
(* tagged with its Python type: <<"str", s>>, <<"int", n>>, <<"num", v>>   *)
(* or <<"tuple", elems>>.                                                  *)
(***************************************************************************)
EXTENDS Integers, Sequences, FiniteSets, TLC

\* ------------------------------------------------------------------------
\* Bounds of the model (not program constants).

\* Largest number of clusters the cluster directory returns.
MaxClusters == 2
\* Largest NumberOfBrokerNodes of a PROVISIONED cluster.
MaxNodes == 2
\* Number of topics the backend advertises for a serverless cluster in Spec.
NTopics == 2
\* Largest number of get_metric_data batches one reduction needs in SpecBatch.
MaxBatches == 3

\* ------------------------------------------------------------------------
\* Module-level constants of pullMSKStats.py.

METRIC_COLLECTION_PERIOD_DAYS == 7

CLUSTER_INFO ==
    <<"Region", "ClusterName", "Availability", "Authentication", "KafkaVersion",
      "EnhancedMonitoring">>

INSTANCE_INFO == <<"NodeId", "NodeType", "VolumeSize (GB)">>

AVERAGE_METRICS ==
    <<"BytesInPerSec", "BytesOutPerSec", "MessagesInPerSec", "KafkaDataLogsDiskUsed">>

PEAK_METRICS ==
    AVERAGE_METRICS \o
    <<"ClientConnectionCount", "PartitionCount", "GlobalTopicCount", "LeaderCount",
      "ReplicationBytesOutPerSec", "ReplicationBytesInPerSec">>

AVERAGE_METRICS_SERVERLESS == <<"BytesInPerSec", "BytesOutPerSec", "MessagesInPerSec">>

PEAK_METRICS_SERVERLESS == <<"BytesInPerSec", "BytesOutPerSec", "MessagesInPerSec">>

\* max_queries_per_call, local to get_cloudwatch_serverless_metric.
max_queries_per_call == 500

\* cluster_dimension_key, local to get_cloudwatch_serverless_metric.
cluster_dimension_key == "Cluster Name"

\* ------------------------------------------------------------------------
\* Python helpers.

Range(s) == {s[k] : k \in DOMAIN s}

\* d.get(k, default)
Get(d, k, default) == IF k \in DOMAIN d THEN d[k] ELSE default

\* The empty dict {}.
EmptyDict == [k \in {} |-> 0]

\* str.upper() on the cluster type labels the directory can carry.
Upper(s) ==
    CASE s = "provisioned" -> "PROVISIONED"
      [] s = "serverless" -> "SERVERLESS"
      [] OTHER -> s

\* metric_name.lower().replace('-', '_').replace('.', '_') on the configured
\* metric names (none of them holds '-' or '.').
Lower(m) ==
    CASE m = "BytesInPerSec" -> "bytesinpersec"
      [] m = "BytesOutPerSec" -> "bytesoutpersec"
      [] m = "MessagesInPerSec" -> "messagesinpersec"
      [] m = "KafkaDataLogsDiskUsed" -> "kafkadatalogsdiskused"
      [] m = "ClientConnectionCount" -> "clientconnectioncount"
      [] m = "PartitionCount" -> "partitioncount"
      [] m = "GlobalTopicCount" -> "globaltopiccount"
      [] m = "LeaderCount" -> "leadercount"
      [] m = "ReplicationBytesOutPerSec" -> "replicationbytesoutpersec"
      [] m = "ReplicationBytesInPerSec" -> "replicationbytesinpersec"
      [] OTHER -> m

\* Position of a metric in PEAK_METRICS (which holds every configured metric).
MetricIndex(m) == CHOOSE k \in DOMAIN PEAK_METRICS : PEAK_METRICS[k] = m

\* Cells of a row.
StrCell(s) == <<"str", s>>
IntCell(n) == <<"int", n>>
NumCell(v) == <<"num", v>>
TupleCell(t) == <<"tuple", t>>

\* ------------------------------------------------------------------------
\* The cluster directory (kafka list_clusters_v2): the descriptors it can
\* return.  A template names which parts of the descriptor are present.

ClientAuthentication(kind) ==
    CASE kind = "provisioned" ->
           [Sasl |-> [Iam |-> [Enabled |-> TRUE], Scram |-> [Enabled |-> FALSE]],
            Tls |-> [Enabled |-> TRUE]]
      [] kind = "serverless" -> [Sasl |-> [Iam |-> [Enabled |-> TRUE]]]
      [] OTHER -> EmptyDict

ProvisionedBlock(n) ==
    [ClientAuthentication |-> ClientAuthentication("provisioned"),
     BrokerNodeGroupInfo |->
        [BrokerAZDistribution |-> "DEFAULT",
         InstanceType |-> "kafka.m5.large",
         StorageInfo |-> [EbsStorageInfo |-> [VolumeSize |-> 100]]],
     CurrentBrokerSoftwareInfo |-> [KafkaVersion |-> "3.5.1"],
     EnhancedMonitoring |-> "PER_BROKER",
     NumberOfBrokerNodes |-> n]

ServerlessBlock == [ClientAuthentication |-> ClientAuthentication("serverless")]

\* d without key k.
Without(d, k) == [x \in DOMAIN d \ {k} |-> d[x]]

ClusterNames == <<"c1", "c2", "c3", "c4">>

\* What a descriptor leaves out, for the malformed ones.
ProvisionedOmissions ==
    {"Provisioned", "ClientAuthentication", "BrokerNodeGroupInfo",
     "CurrentBrokerSoftwareInfo", "EnhancedMonitoring", "NumberOfBrokerNodes"}

ServerlessOmissions == {"ClusterType", "Serverless", "ServerlessClientAuthentication"}

Templates ==
    {[kind |-> "provisioned", n |-> n, omit |-> "nothing", state |-> "ACTIVE"] :
        n \in 1..MaxNodes}
    \cup {[kind |-> "provisioned", n |-> 1, omit |-> o, state |-> "ACTIVE"] :
            o \in ProvisionedOmissions}
    \cup {[kind |-> "serverless", n |-> 1, omit |-> o, state |-> "ACTIVE"] :
            o \in ServerlessOmissions \cup {"nothing"}}
    \cup {[kind |-> "serverless", n |-> 1, omit |-> "nothing", state |-> "CREATING"]}

Descriptor(name, t) ==
    LET base == [ClusterName |-> name, State |-> t.state]
        typed(d, ty) == IF t.omit = "ClusterType" THEN d
                        ELSE [x \in DOMAIN d \cup {"ClusterType"} |->
                                IF x = "ClusterType" THEN ty ELSE d[x]]
        with(d, k, v) == [x \in DOMAIN d \cup {k} |-> IF x = k THEN v ELSE d[x]]
    IN  IF t.kind = "provisioned"
        THEN IF t.omit = "Provisioned" THEN typed(base, "PROVISIONED")
             ELSE IF t.omit = "nothing"
                  THEN with(typed(base, "PROVISIONED"), "Provisioned", ProvisionedBlock(t.n))
                  ELSE with(typed(base, "PROVISIONED"), "Provisioned",
                            Without(ProvisionedBlock(t.n), t.omit))
        ELSE IF t.omit = "Serverless" THEN typed(base, "SERVERLESS")
             ELSE IF t.omit = "ServerlessClientAuthentication"
                  THEN with(typed(base, "SERVERLESS"), "Serverless", EmptyDict)
                  ELSE with(typed(base, "SERVERLESS"), "Serverless", ServerlessBlock)

\* The ClusterInfoList values the directory can return: up to MaxClusters
\* descriptors drawn from T, with distinct names.
DirectoriesOf(T) ==
    UNION {{[k \in 1..n |-> Descriptor(ClusterNames[k], f[k])] : f \in [1..n -> T]} :
            n \in 0..MaxClusters}

Directories == DirectoriesOf(Templates)

WellFormedDirectories ==
    DirectoriesOf({t \in Templates : t.omit = "nothing" /\ t.state = "ACTIVE"})

\* ------------------------------------------------------------------------
\* The metrics backend (CloudWatch).  A backend is a record
\*   ntopics       topics 1..ntopics report per-topic series for a cluster
\*   extra         the listing also returns series the reducer must drop
\*   advertiseAll  per-topic series exist for every metric, not only for the
\*                 ones MSK Serverless reports per topic
\*   faultOp       the operation that raises ("none": no call raises)
\*   faultMetric   the metric whose calls raise
\*   faultBatches  which get_metric_data calls of one reduction raise (by
\*                 their ordinal)
\* Its answers are functions of the request alone.

TopicMetrics == {"BytesInPerSec", "BytesOutPerSec", "MessagesInPerSec"}

Dim(name, value) == [Name |-> name, Value |-> value]

Fails(b, op, metric) == b.faultOp = op /\ b.faultMetric = metric

\* list_metrics(Namespace='AWS/Kafka', MetricName=m, Dimensions=[Cluster Name = c]),
\* all pages of the paginator.
ListMetricsPages(b, c, m) ==
    LET n == IF b.advertiseAll \/ m \in TopicMetrics THEN b.ntopics ELSE 0
        series == [t \in 1..n |->
                     [MetricName |-> m,
                      Dimensions |-> <<Dim(cluster_dimension_key, c), Dim("Topic", t)>>]]
        more == <<[MetricName |-> m,
                   Dimensions |-> <<Dim("Topic", 1), Dim(cluster_dimension_key, c)>>],
                  [MetricName |-> m, Dimensions |-> <<Dim(cluster_dimension_key, c)>>],
                  [MetricName |-> m,
                   Dimensions |-> <<Dim(cluster_dimension_key, "other"),
                                    Dim("Topic", b.ntopics + 1)>>],
                  [MetricName |-> m,
                   Dimensions |-> <<Dim(cluster_dimension_key, c), Dim("Topic", 0)>>],
                  [MetricName |-> m, Dimensions |-> <<Dim("Topic", b.ntopics + 2)>>],
                  [MetricName |-> m]>>
    IN  IF b.extra
        THEN <<[Metrics |-> series], EmptyDict,
               [Metrics |-> IF n > 0 THEN more ELSE Tail(more)]>>
        ELSE <<[Metrics |-> series]>>

\* The 'Values' of the result of one query of get_metric_data, for topic t.
TopicValues(m, stat, t) ==
    LET v == 10 * MetricIndex(m) + (IF stat = "Maximum" THEN 5 ELSE 0) + (t % 3)
    IN  CASE t % 3 = 1 -> <<v>>
          [] t % 3 = 2 -> <<>>
          [] OTHER -> <<v, v + 100>>

\* The 'Datapoints' of get_metric_statistics: none, one or two of them, each
\* carrying the requested statistic only.
Datapoints(m, stat, dims) ==
    LET brokers == {k \in DOMAIN dims : dims[k].Name = "Broker ID"}
        node == IF brokers = {} THEN 0 ELSE dims[CHOOSE k \in brokers : TRUE].Value
        v == 10 * MetricIndex(m) + (IF stat = "Maximum" THEN 5 ELSE 0) + node
        dp(x) == [s \in {stat} |-> x]
    IN  CASE (MetricIndex(m) + node) % 3 = 0 -> <<>>
          [] (MetricIndex(m) + node) % 3 = 1 -> <<dp(v)>>
          [] OTHER -> <<dp(v), dp(v + 100)>>

\* ------------------------------------------------------------------------
\* get_cloudwatch_serverless_metric: its pure parts.

\* period = int(time_period * 24 * 60 * 60)
PeriodSeconds(time_period) == time_period * 24 * 60 * 60

\* statistic_to_fetch / statistics
StatisticOf(is_peak) == IF is_peak THEN "Maximum" ELSE "Average"

\* The inner loop over metric.get('Dimensions', []): is_correct_cluster.
IsCorrectCluster(metric, cluster_id) ==
    LET dims == Get(metric, "Dimensions", <<>>)
    IN  \E k \in DOMAIN dims :
            dims[k].Name = cluster_dimension_key /\ dims[k].Value = cluster_id

\* The inner loop over metric.get('Dimensions', []): topic_value, the value of
\* the last 'Topic' dimension; 0 (falsy, as None and '' are) when there is none.
TopicValueOf(metric) ==
    LET dims == Get(metric, "Dimensions", <<>>)
        at == {k \in DOMAIN dims : dims[k].Name = "Topic"}
    IN  IF at = {} THEN 0
        ELSE dims[CHOOSE k \in at : \A j \in at : j <= k].Value

\* Step 1: the set `topics` after the loop over the pages.
DiscoverTopics(pages, cluster_id) ==
    LET metrics(page) == Get(page, "Metrics", <<>>)
    IN  UNION {{TopicValueOf(metrics(pages[p])[k]) :
                  k \in {j \in DOMAIN metrics(pages[p]) :
                           /\ IsCorrectCluster(metrics(pages[p])[j], cluster_id)
                           /\ TopicValueOf(metrics(pages[p])[j]) # 0}} :
               p \in DOMAIN pages}

\* The elements of S (a set of topics, all in 1..hi) in ascending order.
Ascending(S, hi) == SelectSeq([k \in 1..hi |-> k], LAMBDA k : k \in S)

Reverse(s) == [k \in 1..Len(s) |-> s[Len(s) + 1 - k]]

\* Every ordering of S.
Orderings(S) ==
    {f \in [1..Cardinality(S) -> S] : \A x \in S : \E k \in DOMAIN f : f[k] = x}

\* list(topics): the iteration order of a set of strings is not fixed (it varies
\* with the hash seed).  Every order of a set of up to three topics, and the
\* ascending and descending orders of a larger one.
ListOfSet(S, hi) ==
    IF Cardinality(S) <= 3 THEN Orderings(S)
    ELSE {Ascending(S, hi), Reverse(Ascending(S, hi))}

\* Step 2: metric_data_queries, one query per topic of `order`.
BuildQueries(order, cluster_id, metric_name, period, stat) ==
    [k \in 1..Len(order) |->
        [Id |-> <<"query", Lower(metric_name), k - 1>>,
         MetricStat |->
            [Metric |-> [Namespace |-> "AWS/Kafka",
                         MetricName |-> metric_name,
                         Dimensions |-> <<Dim(cluster_dimension_key, cluster_id),
                                          Dim("Topic", order[k])>>],
             Period |-> period,
             Stat |-> stat],
         ReturnData |-> TRUE]]

Min(a, b) == IF a <= b THEN a ELSE b

\* Mutant: the slice starts one query early, metric_data_queries[i - 1:...].
BatchQueries_Overlap(queries, i) ==
    SubSeq(queries, IF i = 0 THEN 1 ELSE i, Min(i + max_queries_per_call, Len(queries)))

\* batch_queries = metric_data_queries[i:i + max_queries_per_call]
BatchQueries(queries, i) ==
    SubSeq(queries, i + 1, Min(i + max_queries_per_call, Len(queries)))

\* The backend's answer to get_metric_data: one result per query, in order.
MetricDataResults(batch) ==
    [k \in 1..Len(batch) |->
        [Id |-> batch[k].Id,
         Values |-> TopicValues(batch[k].MetricStat.Metric.MetricName,
                                batch[k].MetricStat.Stat,
                                batch[k].MetricStat.Metric.Dimensions[2].Value)]]

RECURSIVE SeqSum(_, _)
SeqSum(values, k) == IF k > Len(values) THEN 0 ELSE values[k] + SeqSum(values, k + 1)

\* Mutant: every value of the result is added, not the first one alone.
ValueFromTopic_AllValues(result) ==
    LET values == Get(result, "Values", <<>>)
    IN  SeqSum(values, 1)

\* What one result adds to aggregated_sum_of_metric_values.
ValueFromTopic(result) ==
    IF Get(result, "Values", <<>>) # <<>> /\ Len(result.Values) > 0
    THEN result.Values[1]
    ELSE 0

\* The sum of ValueFromTopic over results[lo..hi].  The loop adds the values
\* one by one from the left; addition of naturals being associative, the sum is
\* computed here by halves, which keeps the recursion shallow.
RECURSIVE SumRange(_, _, _)
SumRange(results, lo, hi) ==
    IF lo > hi THEN 0
    ELSE IF lo = hi THEN ValueFromTopic(results[lo])
    ELSE LET mid == (lo + hi) \div 2
         IN  SumRange(results, lo, mid) + SumRange(results, mid + 1, hi)

\* aggregated_sum_of_metric_values after the loop over
\* response.get('MetricDataResults', []), from its value `acc` before it.
SumResults(results, acc) == acc + SumRange(results, 1, Len(results))

\* Mutant: a batch that raises resets the sum.
SumAfterBatch_Reset(fails, acc, response) ==
    IF fails THEN 0
    ELSE SumResults(Get(response, "MetricDataResults", <<>>), acc)

\* aggregated_sum_of_metric_values after one iteration of the batch loop: the
\* try block adds the batch's values; the except block prints and goes on.
SumAfterBatch(fails, acc, response) ==
    IF fails THEN acc
    ELSE SumResults(Get(response, "MetricDataResults", <<>>), acc)

\* ------------------------------------------------------------------------
\* get_cloudwatch_metric: its pure parts.

\* dimensions
NodeDimensions(cluster_id, metric_name, node) ==
    IF metric_name # "GlobalTopicCount"
    THEN <<Dim("Cluster Name", cluster_id), Dim("Broker ID", node)>>
    ELSE <<Dim("Cluster Name", cluster_id)>>

\* Mutant: the first datapoint is never read.
MetricStatisticsValue_Zero(response, is_peak) == 0

\* The value returned for a response of get_metric_statistics.
MetricStatisticsValue(response, is_peak) ==
    IF Get(response, "Datapoints", <<>>) = <<>> THEN 0
    ELSE IF is_peak THEN response.Datapoints[1]["Maximum"]
         ELSE response.Datapoints[1]["Average"]

\* ------------------------------------------------------------------------
\* create_dataframe: the header.

create_dataframe ==
    CLUSTER_INFO \o INSTANCE_INFO
    \o [k \in DOMAIN AVERAGE_METRICS |-> <<AVERAGE_METRICS[k], "(avg)">>]
    \o [k \in DOMAIN PEAK_METRICS |-> <<PEAK_METRICS[k], "(max)">>]

\* ------------------------------------------------------------------------
\* get_msk_clusters and the per-cluster header of get_msk_cluster_data.

\* The dict `clusters` as its items in insertion order: one entry per name of
\* an ACTIVE cluster, at the place of the name's first occurrence, holding the
\* descriptor of its last occurrence.
get_msk_clusters(list) ==
    LET active == SelectSeq(list, LAMBDA c : c.State = "ACTIVE")
        first == {k \in DOMAIN active :
                    \A j \in 1..(k - 1) : active[j].ClusterName # active[k].ClusterName}
        last(name) == CHOOSE k \in DOMAIN active :
                        /\ active[k].ClusterName = name
                        /\ \A j \in DOMAIN active : active[j].ClusterName = name => j <= k
        keys == SelectSeq([k \in DOMAIN active |-> k], LAMBDA k : k \in first)
    IN  [k \in DOMAIN keys |->
            [cluster_id |-> active[keys[k]].ClusterName,
             details |-> active[last(active[keys[k]].ClusterName)]]]

\* cluster_type = details.get('ClusterType', 'CLUSTERLESS').upper()
ClusterType(details) == Upper(Get(details, "ClusterType", "CLUSTERLESS"))

\* Whether one of the subscripts of lines 330-342 hits an absent key.
HeaderKeyError(details) ==
    IF ClusterType(details) = "PROVISIONED"
    THEN \/ "Provisioned" \notin DOMAIN details
         \/ "ClientAuthentication" \notin DOMAIN details.Provisioned
         \/ "BrokerNodeGroupInfo" \notin DOMAIN details.Provisioned
         \/ "BrokerAZDistribution" \notin DOMAIN details.Provisioned.BrokerNodeGroupInfo
         \/ "CurrentBrokerSoftwareInfo" \notin DOMAIN details.Provisioned
         \/ "KafkaVersion" \notin DOMAIN details.Provisioned.CurrentBrokerSoftwareInfo
         \/ "EnhancedMonitoring" \notin DOMAIN details.Provisioned
         \/ "NumberOfBrokerNodes" \notin DOMAIN details.Provisioned
    ELSE \/ "Serverless" \notin DOMAIN details
         \/ "ClientAuthentication" \notin DOMAIN details.Serverless

AzLabel(az_distribution) ==
    CASE az_distribution = "DEFAULT" -> "Multiple AZ"
      [] az_distribution = "SINGLE" -> "Single AZ"
      [] OTHER -> az_distribution

\* auth_types, then auth_string = ', '.join(auth_types) if auth_types else "None"
AuthString(auth_config) ==
    LET enabled(a, b) ==
            Get(Get(Get(auth_config, a, EmptyDict), b, EmptyDict), "Enabled", FALSE)
        iam == enabled("Sasl", "Iam")
        scram == enabled("Sasl", "Scram")
        tls == Get(Get(auth_config, "Tls", EmptyDict), "Enabled", FALSE)
    IN  CASE iam /\ scram /\ tls -> "SASL/IAM, SASL/SCRAM, TLS"
          [] iam /\ scram /\ ~tls -> "SASL/IAM, SASL/SCRAM"
          [] iam /\ ~scram /\ tls -> "SASL/IAM, TLS"
          [] iam /\ ~scram /\ ~tls -> "SASL/IAM"
          [] ~iam /\ scram /\ tls -> "SASL/SCRAM, TLS"
          [] ~iam /\ scram /\ ~tls -> "SASL/SCRAM"
          [] ~iam /\ ~scram /\ tls -> "TLS"
          [] OTHER -> "None"

\* Mutant: the serverless node count is used for every cluster.
NumberOfNodes_One(cluster_type, number_of_broker_nodes) == 1

\* number_of_nodes = number_of_broker_nodes if cluster_type == 'PROVISIONED' else 1
NumberOfNodes(cluster_type, number_of_broker_nodes) ==
    IF cluster_type = "PROVISIONED" THEN number_of_broker_nodes ELSE 1

\* The locals of one iteration of the cluster loop once lines 314-364 have run
\* without a KeyError.  kafka_version is a 1-tuple for a PROVISIONED cluster
\* (the assignment ends with a comma).
ClusterLocals(region, cluster_id, details) ==
    LET cluster_type == ClusterType(details)
        prov == cluster_type = "PROVISIONED"
        p == IF prov THEN details.Provisioned ELSE EmptyDict
        auth_config == IF prov THEN p.ClientAuthentication
                       ELSE details.Serverless.ClientAuthentication
        az_distribution == IF prov THEN AzLabel(p.BrokerNodeGroupInfo.BrokerAZDistribution)
                           ELSE "Multiple AZ"
        kafka_version == IF prov
                         THEN TupleCell(<<StrCell(p.CurrentBrokerSoftwareInfo.KafkaVersion)>>)
                         ELSE StrCell("N/A")
        enhanced_monitoring == IF prov THEN p.EnhancedMonitoring ELSE "N/A"
        number_of_broker_nodes == IF prov THEN p.NumberOfBrokerNodes ELSE 1
        group == Get(Get(details, "Provisioned", EmptyDict), "BrokerNodeGroupInfo", EmptyDict)
    IN  [cluster_type |-> cluster_type,
         cluster_info_written |-> FALSE,
         base_info |-> <<StrCell(region), StrCell(cluster_id), StrCell(az_distribution),
                         StrCell(AuthString(auth_config)), kafka_version,
                         StrCell(enhanced_monitoring)>>,
         number_of_nodes |-> NumberOfNodes(cluster_type, number_of_broker_nodes),
         instance_type |-> IF prov THEN Get(group, "InstanceType", "N/A") ELSE "N/A",
         volume_size |->
            IF prov
            THEN Get(Get(Get(group, "StorageInfo", EmptyDict), "EbsStorageInfo", EmptyDict),
                     "VolumeSize", 0)
            ELSE 0]

\* Mutant: every row carries base_info.
ClusterColumns_Always(cluster_info_written, base_info) == base_info

\* The cluster columns of a row: base_info on the cluster's first row, empty
\* strings after it.
ClusterColumns(cluster_info_written, base_info) ==
    IF cluster_info_written THEN [k \in DOMAIN CLUSTER_INFO |-> StrCell("")]
    ELSE base_info

\* Mutant: a row of a cluster that is not PROVISIONED runs over the serverless
\* metric lists.
RowMetrics_ServerlessLists(cluster_type, phase) ==
    IF cluster_type = "PROVISIONED"
    THEN IF phase = "avg" THEN AVERAGE_METRICS ELSE PEAK_METRICS
    ELSE IF phase = "avg" THEN AVERAGE_METRICS_SERVERLESS ELSE PEAK_METRICS_SERVERLESS

\* The metrics a row's two comprehensions run over, for either topology.
RowMetrics(cluster_type, phase) ==
    IF phase = "avg" THEN AVERAGE_METRICS ELSE PEAK_METRICS

\* ------------------------------------------------------------------------
\* State.

VARIABLES
    directory,          \* ClusterInfoList of the cluster directory (input)
    backend,            \* the metrics backend (input)
    pc,                 \* where get_msk_cluster_data is
    error,              \* the exception that left get_msk_cluster_data, if any
    running_instances,  \* items of the dict of active clusters, in order
    rows,               \* rows
    ci,                 \* position of the cluster loop in running_instances
    loc,                \* locals of the current cluster iteration
    node_id,            \* node_id of the node loop
    row,                \* row
    phase,              \* which comprehension runs: "avg" or "peak"
    mi,                 \* position of the comprehension in its metric list
    acc,                \* the list the running comprehension has built
    sl,                 \* frame of get_cloudwatch_serverless_metric
    calls,              \* backend calls of the current reducer invocation
    ret,                \* the reducer call that has just returned
    result              \* rows of the returned DataFrame

vars == <<directory, backend, pc, error, running_instances, rows, ci, loc, node_id,
          row, phase, mi, acc, sl, calls, ret, result>>

region == "us-east-1"

NoLocals ==
    [cluster_type |-> "", cluster_info_written |-> FALSE, base_info |-> <<>>,
     number_of_nodes |-> 0, instance_type |-> "", volume_size |-> 0]

NoFrame ==
    [cluster_id |-> "", metric_name |-> "", is_peak |-> FALSE, time_period |-> 0,
     topics |-> {}, queries |-> <<>>, i |-> 0, sum |-> 0]

NoReturn == [fn |-> "none"]

RaisedResponse == [raised |-> TRUE]

FaultOps ==
    {"none", "list_clusters_v2", "list_metrics", "get_metric_data", "get_metric_statistics"}

Backend(n, x, a, f, batches) ==
    [ntopics |-> n, extra |-> x, advertiseAll |-> a, faultOp |-> f,
     faultMetric |-> "BytesOutPerSec", faultBatches |-> batches]

\* A backend with NTopics topics per serverless cluster and no fault.
Baseline == Backend(NTopics, TRUE, FALSE, "none", {})

\* The backends of Spec: every listing without a fault, and every fault.
Backends ==
    {Backend(n, x, a, "none", {}) : n \in {0, NTopics}, x \in BOOLEAN, a \in BOOLEAN}
    \cup {Backend(NTopics, TRUE, FALSE, f, {1}) : f \in FaultOps \ {"none"}}

Start ==
    /\ pc = "start"
    /\ error = "none"
    /\ running_instances = <<>>
    /\ rows = <<>>
    /\ ci = 0
    /\ loc = NoLocals
    /\ node_id = 0
    /\ row = <<>>
    /\ phase = "avg"
    /\ mi = 1
    /\ acc = <<>>
    /\ sl = NoFrame
    /\ calls = <<>>
    /\ ret = NoReturn
    /\ result = <<>>

\* Every directory against the baseline backend, and every directory of
\* well-formed descriptors against every backend.
Init ==
    /\ \/ directory \in Directories /\ backend = Baseline
       \/ directory \in WellFormedDirectories /\ backend \in Backends
    /\ Start

\* What every step outside a reducer does to the reducer's state.
NoReducer == sl' = NoFrame /\ calls' = <<>> /\ ret' = NoReturn

\* get_msk_clusters(session), lines 308-311.
GetMskClusters ==
    /\ pc = "start"
    /\ IF backend.faultOp = "list_clusters_v2"
       THEN /\ pc' = "raised"
            /\ error' = "list_clusters_v2"
            /\ UNCHANGED <<running_instances, ci>>
       ELSE /\ pc' = "clusters"
            /\ running_instances' = get_msk_clusters(directory)
            /\ ci' = 1
            /\ UNCHANGED error
    /\ NoReducer
    /\ UNCHANGED <<directory, backend, rows, loc, node_id, row, phase, mi, acc, result>>

\* The head of the cluster loop and lines 314-364.
ClusterHeader ==
    /\ pc = "clusters"
    /\ IF ci > Len(running_instances)
       THEN /\ pc' = "return"
            /\ UNCHANGED <<error, loc, node_id>>
       ELSE IF HeaderKeyError(running_instances[ci].details)
            THEN /\ pc' = "raised"
                 /\ error' = "KeyError"
                 /\ UNCHANGED <<loc, node_id>>
            ELSE /\ pc' = "nodes"
                 /\ loc' = ClusterLocals(region, running_instances[ci].cluster_id,
                                         running_instances[ci].details)
                 /\ node_id' = 1
                 /\ UNCHANGED error
    /\ NoReducer
    /\ UNCHANGED <<directory, backend, running_instances, rows, ci, row, phase, mi, acc,
                   result>>

\* The head of the node loop and lines 367-378.
NodeHeader ==
    /\ pc = "nodes"
    /\ IF node_id > loc.number_of_nodes
       THEN /\ pc' = "clusters"
            /\ ci' = ci + 1
            /\ UNCHANGED <<loc, row>>
       ELSE /\ pc' = "metrics"
            /\ row' = ClusterColumns(loc.cluster_info_written, loc.base_info)
                      \o <<IntCell(node_id), StrCell(loc.instance_type),
                           IntCell(loc.volume_size)>>
            /\ loc' = [loc EXCEPT !.cluster_info_written = TRUE]
            /\ UNCHANGED ci
    /\ phase' = "avg"
    /\ mi' = 1
    /\ acc' = <<>>
    /\ NoReducer
    /\ UNCHANGED <<directory, backend, error, running_instances, rows, node_id, result>>

\* A reducer returns v into the running comprehension; the comprehension's list
\* is added to the row when its last metric is done.
Returned(v) ==
    LET done == Append(acc, NumCell(v))
    IN  IF mi < Len(RowMetrics(loc.cluster_type, phase))
        THEN /\ acc' = done
             /\ mi' = mi + 1
             /\ pc' = "metrics"
             /\ UNCHANGED <<row, phase>>
        ELSE /\ row' = row \o done
             /\ acc' = <<>>
             /\ mi' = 1
             /\ phase' = IF phase = "avg" THEN "peak" ELSE "avg"
             /\ pc' = IF phase = "avg" THEN "metrics" ELSE "append"

\* get_cloudwatch_metric(cloudwatch_client, cluster_id, metric, is_peak, node_id),
\* lines 250-278, called at lines 383-386.
ProvisionedMetric ==
    /\ pc = "metrics"
    /\ loc.cluster_type = "PROVISIONED"
    /\ LET cluster_id == running_instances[ci].cluster_id
           metric_name == RowMetrics(loc.cluster_type, phase)[mi]
           is_peak == phase = "peak"
           time_period == METRIC_COLLECTION_PERIOD_DAYS
           request == [op |-> "get_metric_statistics",
                       MetricName |-> metric_name,
                       Dimensions |-> NodeDimensions(cluster_id, metric_name, node_id),
                       Days |-> time_period,
                       Period |-> PeriodSeconds(time_period),
                       Statistics |-> <<StatisticOf(is_peak)>>]
           response == [Datapoints |-> Datapoints(metric_name, request.Statistics[1],
                                                  request.Dimensions)]
       IN  IF Fails(backend, "get_metric_statistics", metric_name)
           THEN /\ calls' = <<[request |-> request, response |-> RaisedResponse]>>
                /\ pc' = "raised"
                /\ error' = "get_metric_statistics"
                /\ ret' = NoReturn
                /\ UNCHANGED <<row, phase, mi, acc>>
           ELSE /\ calls' = <<[request |-> request, response |-> response]>>
                /\ ret' = [fn |-> "get_cloudwatch_metric", metric_name |-> metric_name,
                           is_peak |-> is_peak,
                           value |-> MetricStatisticsValue(response, is_peak)]
                /\ Returned(MetricStatisticsValue(response, is_peak))
                /\ UNCHANGED error
    /\ sl' = NoFrame
    /\ UNCHANGED <<directory, backend, running_instances, rows, ci, loc, node_id, result>>

\* get_cloudwatch_serverless_metric(cloudwatch_client, cluster_id, metric, is_peak,
\* node_id), called at lines 388-391: the fifth positional argument is the
\* parameter time_period.  Lines 81-165: discovery of the topics and the queries.
ServerlessList ==
    /\ pc = "metrics"
    /\ loc.cluster_type # "PROVISIONED"
    /\ LET cluster_id == running_instances[ci].cluster_id
           metric_name == RowMetrics(loc.cluster_type, phase)[mi]
           is_peak == phase = "peak"
           time_period == node_id
           frame == [NoFrame EXCEPT !.cluster_id = cluster_id,
                                    !.metric_name = metric_name,
                                    !.is_peak = is_peak,
                                    !.time_period = time_period]
           request == [op |-> "list_metrics",
                       Namespace |-> "AWS/Kafka",
                       MetricName |-> metric_name,
                       Dimensions |-> <<Dim(cluster_dimension_key, cluster_id)>>]
           pages == ListMetricsPages(backend, cluster_id, request.MetricName)
           topics == DiscoverTopics(pages, cluster_id)
           returns(v) == [fn |-> "get_cloudwatch_serverless_metric",
                          metric_name |-> metric_name, is_peak |-> is_peak, value |-> v]
       IN  IF Fails(backend, "list_metrics", metric_name)
           THEN /\ calls' = <<[request |-> request, response |-> RaisedResponse]>>
                /\ sl' = frame
                /\ ret' = returns(0)
                /\ Returned(0)
           ELSE /\ calls' = <<[request |-> request, response |-> [pages |-> pages]]>>
                /\ IF topics = {}
                   THEN /\ sl' = frame
                        /\ ret' = returns(0)
                        /\ Returned(0)
                   ELSE /\ \E order \in ListOfSet(topics, backend.ntopics + 2) :
                              sl' = [frame EXCEPT
                                       !.topics = topics,
                                       !.queries =
                                          BuildQueries(order, cluster_id, metric_name,
                                                       PeriodSeconds(time_period),
                                                       StatisticOf(is_peak))]
                        /\ ret' = NoReturn
                        /\ pc' = "batches"
                        /\ UNCHANGED <<row, phase, mi, acc>>
    /\ UNCHANGED <<directory, backend, error, running_instances, rows, ci, loc, node_id,
                   result>>

\* One iteration of the batch loop, lines 173-231, and the return of line 232
\* after the last one.
ServerlessBatch ==
    /\ pc = "batches"
    /\ LET batch_queries == BatchQueries(sl.queries, sl.i)
           request == [op |-> "get_metric_data",
                       MetricDataQueries |-> batch_queries,
                       Days |-> sl.time_period,
                       ScanBy |-> "TimestampAscending"]
           fails == /\ Fails(backend, "get_metric_data", sl.metric_name)
                    /\ Len(calls) \in backend.faultBatches
           response == IF fails THEN RaisedResponse
                       ELSE [MetricDataResults |->
                                MetricDataResults(request.MetricDataQueries)]
           sum == SumAfterBatch(fails, sl.sum, response)
           next == sl.i + max_queries_per_call
       IN  /\ calls' = Append(calls, [request |-> request, response |-> response])
           /\ sl' = [sl EXCEPT !.i = next, !.sum = sum]
           /\ IF next < Len(sl.queries)
              THEN /\ ret' = NoReturn
                   /\ UNCHANGED <<pc, row, phase, mi, acc>>
              ELSE /\ ret' = [fn |-> "get_cloudwatch_serverless_metric",
                              metric_name |-> sl.metric_name, is_peak |-> sl.is_peak,
                              value |-> sum]
                   /\ Returned(sum)
    /\ UNCHANGED <<directory, backend, error, running_instances, rows, ci, loc, node_id,
                   result>>

\* rows.append(row), line 393, and the step of the node loop.
RowAppend ==
    /\ pc = "append"
    /\ rows' = Append(rows, row)
    /\ node_id' = node_id + 1
    /\ pc' = "nodes"
    /\ NoReducer
    /\ UNCHANGED <<directory, backend, error, running_instances, ci, loc, row, phase, mi,
                   acc, result>>

\* return pd.DataFrame(rows, columns=cluster_df.columns), line 395: pandas
\* raises a ValueError unless the widest row has as many fields as the header
\* (an empty list of rows gives an empty frame).
ReturnDataFrame ==
    /\ pc = "return"
    /\ IF \/ rows = <<>>
          \/ /\ \A k \in DOMAIN rows : Len(rows[k]) <= Len(create_dataframe)
             /\ \E k \in DOMAIN rows : Len(rows[k]) = Len(create_dataframe)
       THEN /\ pc' = "done"
            /\ result' = rows
            /\ UNCHANGED error
       ELSE /\ pc' = "raised"
            /\ error' = "ValueError"
            /\ UNCHANGED result
    /\ NoReducer
    /\ UNCHANGED <<directory, backend, running_instances, rows, ci, loc, node_id, row,
                   phase, mi, acc>>

Next ==
    \/ GetMskClusters
    \/ ClusterHeader
    \/ NodeHeader
    \/ ProvisionedMetric
    \/ ServerlessList
    \/ ServerlessBatch
    \/ RowAppend
    \/ ReturnDataFrame

Spec == Init /\ [][Next]_vars

\* ------------------------------------------------------------------------
\* A second specification, for the batching of get_cloudwatch_serverless_metric:
\* the same program against backends that advertise enough topics for several
\* batches of max_queries_per_call queries.

\* Topic counts around one full batch and around MaxBatches - 1 full batches.
BatchTopicCounts ==
    {k * max_queries_per_call + d : k \in {1, MaxBatches - 1}, d \in {-1, 0, 1}}

\* No fault, a fault in any one batch, a fault in every batch.
BatchBackends ==
    {Backend(n, x, FALSE, "none", {}) : n \in BatchTopicCounts, x \in BOOLEAN}
    \cup {Backend(n, FALSE, FALSE, "get_metric_data", f) :
            n \in BatchTopicCounts,
            f \in {{j} : j \in 1..MaxBatches} \cup {1..MaxBatches}}

BatchDirectory ==
    <<Descriptor(ClusterNames[1], [kind |-> "provisioned", n |-> 1, omit |-> "nothing",
                                   state |-> "ACTIVE"]),
      Descriptor(ClusterNames[2], [kind |-> "serverless", n |-> 1, omit |-> "nothing",
                                   state |-> "ACTIVE"])>>

InitBatch ==
    /\ directory = BatchDirectory
    /\ backend \in BatchBackends
    /\ Start

SpecBatch == InitBatch /\ [][Next]_vars

\* ------------------------------------------------------------------------
\* Properties.  What the properties read off a state.

\* The sum of f[k] for k in lo..hi.
RECURSIVE SumOver(_, _, _)
SumOver(lo, hi, f) ==
    IF lo > hi THEN 0
    ELSE IF lo = hi THEN f[lo]
    ELSE SumOver(lo, (lo + hi) \div 2, f) + SumOver((lo + hi) \div 2 + 1, hi, f)

\* A reducer call has just returned.
ServerlessReturned == ret.fn = "get_cloudwatch_serverless_metric"

ProvisionedReturned == ret.fn = "get_cloudwatch_metric"

CallRaised(call) == "raised" \in DOMAIN call.response

\* The get_metric_data calls of the current reduction.
BatchCalls == {j \in DOMAIN calls : calls[j].request.op = "get_metric_data"}

\* The statistic a reduction of kind is_peak is about.
WantedStatistic(is_peak) == IF is_peak THEN "Maximum" ELSE "Average"

\* The first value the backend holds for topic t (0: no values).
FirstValue(metric_name, is_peak, t) ==
    LET values == TopicValues(metric_name, WantedStatistic(is_peak), t)
    IN  IF values = <<>> THEN 0 ELSE values[1]

\* The non-empty 'Topic' values of one listed series, if its 'Cluster Name'
\* dimension is c.
SeriesTopics(series, c) ==
    IF "Dimensions" \in DOMAIN series
       /\ Dim(cluster_dimension_key, c) \in Range(series.Dimensions)
    THEN {d.Value : d \in {x \in Range(series.Dimensions) : x.Name = "Topic"}} \ {0}
    ELSE {}

\* T: the non-empty 'Topic' values of the listed series whose 'Cluster Name'
\* dimension is c.
AdvertisedTopics(pages, c) ==
    UNION {UNION {SeriesTopics(pages[p].Metrics[k], c) : k \in DOMAIN pages[p].Metrics} :
             p \in {q \in DOMAIN pages : "Metrics" \in DOMAIN pages[q]}}

\* C1: a reduction for a serverless cluster whose listing and batches all
\* succeed returns the sum, over the advertised topics T of the cluster, of each
\* topic's first value (0 for a topic without values); with T empty it returns
\* 0 and has sent no statistics query.
C1_SumOverTopics ==
    (ServerlessReturned /\ \A j \in DOMAIN calls : ~CallRaised(calls[j])) =>
        LET T == AdvertisedTopics(calls[1].response.pages, sl.cluster_id)
            v == [t \in 1..(backend.ntopics + 2) |->
                    IF t \in T THEN FirstValue(ret.metric_name, ret.is_peak, t) ELSE 0]
        IN  /\ ret.value = SumOver(1, backend.ntopics + 2, v)
            /\ T = {} => (ret.value = 0 /\ BatchCalls = {})

\* A reduction over several batches, with extra series in the listing and topics
\* without values, has returned a sum.
C1_Witness ==
    /\ ServerlessReturned
    /\ \A j \in DOMAIN calls : ~CallRaised(calls[j])
    /\ Cardinality(BatchCalls) >= 2
    /\ backend.extra
    /\ ret.value > 0
    /\ \E t \in sl.topics : FirstValue(ret.metric_name, ret.is_peak, t) = 0

\* The queries of the batches submitted so far, in submission order.
RECURSIVE SubmittedUpTo(_)
SubmittedUpTo(j) ==
    IF j < 2 THEN <<>>
    ELSE SubmittedUpTo(j - 1) \o calls[j].request.MetricDataQueries

\* C4: the batches sent to get_metric_data are consecutive slices of the query
\* list in its order: none is empty, none holds more than 500 queries, and
\* together they are the list's first queries, all of them once the reduction
\* has returned.
C4_BatchesPartitionQueries ==
    BatchCalls # {} =>
        /\ BatchCalls = 2..Len(calls)
        /\ \A j \in BatchCalls :
              /\ Len(calls[j].request.MetricDataQueries) >= 1
              /\ Len(calls[j].request.MetricDataQueries) <= 500
        /\ Len(SubmittedUpTo(Len(calls))) <= Len(sl.queries)
        /\ SubmittedUpTo(Len(calls)) = SubSeq(sl.queries, 1, Len(SubmittedUpTo(Len(calls))))
        /\ ServerlessReturned => SubmittedUpTo(Len(calls)) = sl.queries

\* A reduction has returned after three batches, the last one a single query.
C4_Witness ==
    /\ ServerlessReturned
    /\ Cardinality(BatchCalls) = 3
    /\ Len(calls[Len(calls)].request.MetricDataQueries) = 1
    /\ Len(sl.queries) = 1001

\* The sum of the first values of the topics of the queries of call j.
BatchValue(j) ==
    LET batch == calls[j].request.MetricDataQueries
    IN  SumOver(1, Len(batch),
                [k \in 1..Len(batch) |->
                    FirstValue(ret.metric_name, ret.is_peak,
                               batch[k].MetricStat.Metric.Dimensions[2].Value)])

C2_SingleDatapoint ==
    ProvisionedReturned =>
        LET datapoints == calls[1].response.Datapoints
            stat == WantedStatistic(ret.is_peak)
        IN  /\ calls[1].request.Statistics = <<stat>>
            /\ Len(datapoints) = 1 => ret.value = datapoints[1][stat]
            /\ Len(datapoints) = 0 => ret.value = 0

\* A peak reduction for a node has returned the Maximum of the one datapoint the
\* backend returned.
C2_Witness ==
    /\ ProvisionedReturned
    /\ ret.is_peak
    /\ Len(calls[1].response.Datapoints) = 1
    /\ ret.value = calls[1].response.Datapoints[1]["Maximum"]
    /\ ret.value > 0

\* C3: a backend call that raises never ends the run: the reducer returns a
\* number and get_msk_cluster_data goes on.
C3_ReducerNeverRaises ==
    (\E j \in DOMAIN calls : CallRaised(calls[j])) => pc # "raised"

\* The node count a descriptor declares: NumberOfBrokerNodes for a PROVISIONED
\* cluster, 1 otherwise.
DeclaredNodes(details) ==
    IF "ClusterType" \in DOMAIN details /\ details.ClusterType = "PROVISIONED"
    THEN details.Provisioned.NumberOfBrokerNodes
    ELSE 1

\* get_msk_cluster_data is inside the node loop of cluster ci.
InNodeLoop ==
    \/ pc \in {"nodes", "metrics", "batches", "append"}
    \/ pc = "raised" /\ error = "get_metric_statistics"

\* How many rows cluster c of running_instances must have by now: all of them
\* once the cluster loop has passed it, node_id - 1 while the loop is in it.
RowsDue(c) ==
    IF c < ci THEN DeclaredNodes(running_instances[c].details)
    ELSE IF c = ci /\ InNodeLoop THEN node_id - 1
    ELSE 0

\* For each row due, the cluster (its position in running_instances) and the
\* node it belongs to, in the order of the claim: cluster by cluster, and node
\* ids 1..N ascending within a cluster.
RECURSIVE LayoutUpTo(_)
LayoutUpTo(c) ==
    IF c = 0 THEN <<>>
    ELSE LayoutUpTo(c - 1) \o [n \in 1..RowsDue(c) |-> [cluster |-> c, node |-> n]]

Layout == LayoutUpTo(Len(running_instances))

\* C6: the rows emitted are, cluster by cluster in the order of the run, one row
\* per node id 1..N of the cluster in ascending order, N being the node count
\* the cluster declares (1 for a SERVERLESS cluster); the rows of a cluster are
\* contiguous, the first one naming it.
C6_RowsPerCluster ==
    /\ Len(rows) = Len(Layout)
    /\ \A k \in DOMAIN rows :
          /\ rows[k][7] = IntCell(Layout[k].node)
          /\ Layout[k].node = 1 =>
                rows[k][2] = StrCell(running_instances[Layout[k].cluster].cluster_id)
          /\ Layout[k].node > 1 => rows[k][2] = StrCell("")
    /\ pc = "done" =>
          /\ result = rows
          /\ \A c \in DOMAIN running_instances :
                Cardinality({k \in DOMAIN rows : Layout[k].cluster = c})
                    = DeclaredNodes(running_instances[c].details)

\* A run has returned the rows of a PROVISIONED cluster of two nodes and of a
\* SERVERLESS cluster.
C6_Witness ==
    /\ pc = "done"
    /\ Len(running_instances) = 2
    /\ \E c \in DOMAIN running_instances :
          /\ ClusterType(running_instances[c].details) = "PROVISIONED"
          /\ DeclaredNodes(running_instances[c].details) = 2
    /\ \E c \in DOMAIN running_instances :
          ClusterType(running_instances[c].details) = "SERVERLESS"
    /\ Len(result) = 3

\* A cell holds something other than the empty string.
Populated(cell) == cell[1] # "str" \/ cell[2] # ""

\* C7: the first row of a cluster carries the cluster's Region and ClusterName
\* and a value in each of the four other cluster columns; every later row of the
\* cluster carries the empty string in all six cluster columns.
C7_ClusterFieldsOnFirstRowOnly ==
    Len(rows) = Len(Layout) =>
        \A k \in DOMAIN rows :
            IF Layout[k].node = 1
            THEN /\ rows[k][1] = StrCell(region)
                 /\ rows[k][2] = StrCell(running_instances[Layout[k].cluster].cluster_id)
                 /\ \A col \in DOMAIN CLUSTER_INFO : Populated(rows[k][col])
            ELSE \A col \in DOMAIN CLUSTER_INFO : rows[k][col] = StrCell("")

\* A run has emitted the two rows of a first cluster and the first row of a
\* second cluster.
C7_Witness ==
    /\ Len(rows) >= 3
    /\ Len(rows) = Len(Layout)
    /\ Layout[1].cluster = 1 /\ Layout[2].cluster = 1 /\ Layout[3].cluster = 2
    /\ rows[2][2] = StrCell("")
    /\ rows[3][2] = StrCell(running_instances[2].cluster_id)

\* What the backend holds for one metric of one row: for a node of a
\* PROVISIONED cluster the statistic of the first datapoint of the node's series
\* (of the cluster's series for GlobalTopicCount), 0 without datapoints; for
\* another cluster the sum of the first values of its advertised topics.
BackendValue(c, n, metric, is_peak) ==
    LET cluster_id == running_instances[c].cluster_id
        stat == WantedStatistic(is_peak)
        series == IF metric = "GlobalTopicCount"
                  THEN <<Dim("Cluster Name", cluster_id)>>
                  ELSE <<Dim("Cluster Name", cluster_id), Dim("Broker ID", n)>>
        datapoints == Datapoints(metric, stat, series)
        T == AdvertisedTopics(ListMetricsPages(backend, cluster_id, metric), cluster_id)
    IN  IF ClusterType(running_instances[c].details) = "PROVISIONED"
        THEN IF datapoints = <<>> THEN 0 ELSE datapoints[1][stat]
        ELSE SumOver(1, backend.ntopics + 2,
                     [t \in 1..(backend.ntopics + 2) |->
                        IF t \in T THEN FirstValue(metric, is_peak, t) ELSE 0])

\* C8: every row emitted, for either topology, has one field per column of the
\* header of create_dataframe: the cluster fields, the node fields, then one
\* number per entry of AVERAGE_METRICS and one per entry of PEAK_METRICS, each in
\* the configured order (with a backend that raises nothing, the number in a
\* metric's column is the backend's value for that metric; the numbers are
\* compared each time a row has been appended, and when the run returns).
C8_RowsMatchHeader ==
    /\ Len(create_dataframe)
          = Len(CLUSTER_INFO) + Len(INSTANCE_INFO) + Len(AVERAGE_METRICS) + Len(PEAK_METRICS)
    /\ \A i \in DOMAIN AVERAGE_METRICS :
          create_dataframe[9 + i] = <<AVERAGE_METRICS[i], "(avg)">>
    /\ \A i \in DOMAIN PEAK_METRICS :
          create_dataframe[13 + i] = <<PEAK_METRICS[i], "(max)">>
    /\ \A k \in DOMAIN rows :
          /\ Len(rows[k]) = Len(create_dataframe)
          /\ \A col \in 1..6 : rows[k][col][1] \in {"str", "tuple"}
          /\ rows[k][7][1] = "int" /\ rows[k][8][1] = "str" /\ rows[k][9][1] = "int"
          /\ \A col \in 10..23 : rows[k][col][1] = "num"
          /\ (backend.faultOp = "none" /\ pc \in {"nodes", "done"}) =>
                /\ \A i \in DOMAIN AVERAGE_METRICS :
                      rows[k][9 + i] =
                          NumCell(BackendValue(Layout[k].cluster, Layout[k].node,
                                               AVERAGE_METRICS[i], FALSE))
                /\ \A i \in DOMAIN PEAK_METRICS :
                      rows[k][13 + i] =
                          NumCell(BackendValue(Layout[k].cluster, Layout[k].node,
                                               PEAK_METRICS[i], TRUE))

\* A run has returned a row of a PROVISIONED cluster and a row of a SERVERLESS
\* cluster, each with values in its metric columns.
C8_Witness ==
    /\ pc = "done"
    /\ Len(result) = Len(Layout)
    /\ \E k \in DOMAIN result :
          /\ ClusterType(running_instances[Layout[k].cluster].details) = "PROVISIONED"
          /\ result[k][12] # NumCell(0)
    /\ \E k \in DOMAIN result :
          /\ ClusterType(running_instances[Layout[k].cluster].details) = "SERVERLESS"
          /\ result[k][10] # NumCell(0)
          /\ result[k][14] # NumCell(0)

\* C9: in the row of a SERVERLESS cluster, the column of an average metric that
\* is not in AVERAGE_METRICS_SERVERLESS and the column of a peak metric that is
\* not in PEAK_METRICS_SERVERLESS hold 0, whatever the backend advertises.
C9_UnsupportedMetricsAreZero ==
    Len(rows) = Len(Layout) =>
        \A k \in DOMAIN rows :
            ClusterType(running_instances[Layout[k].cluster].details) = "SERVERLESS" =>
                /\ \A i \in DOMAIN AVERAGE_METRICS :
                      AVERAGE_METRICS[i] \notin Range(AVERAGE_METRICS_SERVERLESS) =>
                          rows[k][9 + i] = NumCell(0)
                /\ \A i \in DOMAIN PEAK_METRICS :
                      PEAK_METRICS[i] \notin Range(PEAK_METRICS_SERVERLESS) =>
                          rows[k][13 + i] = NumCell(0)

\* C10: a descriptor with a missing part never ends the run.
C10_MalformedDescriptorTolerated == ~(pc = "raised" /\ error = "KeyError")

\* The value the reduction of the frame sl returns when list(topics) is `order`:
\* the first values of the topics whose batch the backend answers.
OrderValue(order) ==
    LET batch(k) == (k - 1) \div max_queries_per_call + 1
        answered(k) == ~(/\ Fails(backend, "get_metric_data", sl.metric_name)
                         /\ batch(k) \in backend.faultBatches)
        v == [k \in 1..Len(order) |->
                IF answered(k) THEN FirstValue(sl.metric_name, sl.is_peak, order[k])
                ELSE 0]
    IN  SumOver(1, Len(order), v)

\* C11: two runs against the same directory and the same backend produce the
\* same rows: the value a serverless reduction returns into its row is the value
\* every iteration order of the discovered topic set gives.
C11_IterationOrderIrrelevant ==
    (ServerlessReturned /\ sl.topics # {}) =>
        \A order \in ListOfSet(sl.topics, backend.ntopics + 2) :
            ret.value = OrderValue(order)

\* The length in seconds of the lookback window a run is to use.
WindowSeconds == PeriodSeconds(METRIC_COLLECTION_PERIOD_DAYS)

\* C12: every statistics query of a run, get_metric_statistics for a node of a
\* PROVISIONED cluster and get_metric_data for a SERVERLESS cluster, looks back
\* METRIC_COLLECTION_PERIOD_DAYS days and has that window's length in seconds
\* as its Period.
C12_FixedLookbackWindow ==
    \A j \in DOMAIN calls :
        LET request == calls[j].request
        IN  /\ request.op = "get_metric_statistics" =>
                 /\ request.Days = METRIC_COLLECTION_PERIOD_DAYS
                 /\ request.Period = WindowSeconds
            /\ request.op = "get_metric_data" =>
                 /\ request.Days = METRIC_COLLECTION_PERIOD_DAYS
                 /\ \A q \in DOMAIN request.MetricDataQueries :
                       request.MetricDataQueries[q].MetricStat.Period = WindowSeconds

====
